---------------------------- MODULE Spec2Model ----------------------------
(***************************************************************************)
(* A model of InitGit: the shell command runners (initgit.cmd and          *)
(* _command.Command), and the workflow orchestrator of initgit.py          *)
(* (validate_args, main_init, single_init, initialize, commit,             *)
(* create_repo) with the top level of __main__.py, pre_stage run twice on  *)
(* one directory, and the Dependency Scanner of util.py                    *)
(* (generate_requirements, find_imports).                                  *)
(*                                                                         *)
(* Text is a sequence of characters.  Each character stands for a class    *)
(* of characters that the quoting code and the shell tell apart:           *)
(*   "a"      a character of shlex's safe set (\w @ % + = : , . / -)       *)
(*   "SP"     white space                                                  *)
(*   "PIPE"   a shell operator character ( | > ; & )                       *)
(*   "DOLLAR" the start of a substitution ( $( ... ) )                     *)
(*   "SQ"     the single quote,   "DQ"  the double quote                   *)
(***************************************************************************)
EXTENDS Integers, Sequences, FiniteSets, TLC

VARIABLES
    qcmd,         \* the command string handed to a runner
    qrun,         \* what the runner executed for it
    cobj,         \* a Command object of _command.py (its attributes)
    child,        \* the outcome of the last child process it started
    cinv,         \* the last invocation on it: sleeps fired, error raised
    cruns,        \* the number of invocations on it so far
    args,         \* the arguments of the run that the operations read
    verdict,      \* what validate_args found ("ok", or the failed check)
    env,          \* the directories that hold .git, and COMMIT_EDITMSG
    CURRENT_DIR,  \* the module global CURRENT_DIR of initgit.py
    pc,           \* the call site the run stands at
    op,           \* the operation main_init dispatched to
    call,         \* the command of the pending simple invocation
    msg,          \* the message parameter of the pending commit() call
    issued,       \* the Runner invocations so far, in order
    results,      \* _results of create_repo
    fbouts,       \* the values the fallback commands returned so far
    exc,          \* the exception that left main_init
    status,       \* running, returned, raised, aborted (parser.error)
    printed,      \* the reports printed
    prompts,      \* the number of re-prompts so far
    exitcode,     \* the exit status of the process (-1 while it runs)
    asked,        \* the questions of validate_args, single_init and reset, answered
    files,        \* the content of the three files pre_stage writes
    sin,          \* the repository name and description given to pre_stage
    srun,         \* the run of pre_stage on the directory (first, second)
    sk,           \* the index of the next command of pre_stage_commands
    after1,       \* the files as the first run of pre_stage left them
    sstat,        \* the run of pre_stage: running, done, raised
    project,      \* the directory tree given to the Dependency Scanner
    pyenv,        \* the modules of the scanning process and its installation
    scan,         \* the position of generate_requirements and what it holds
    reqs,         \* the list generate_requirements returned
    reqfile       \* requirements.txt in the root of the scanned tree

qvars == <<qcmd, qrun>>

cvars == <<cobj, child, cinv, cruns>>

ovars == <<args, verdict, env, CURRENT_DIR, pc, op, call, msg, issued, results, fbouts,
           exc, status, printed, prompts, exitcode, asked>>

svars == <<files, sin, srun, sk, after1, sstat>>

rvars == <<project, pyenv, scan, reqs, reqfile>>

-----------------------------------------------------------------------------
(* Bounds of the model *)

MaxLen == 3            \* longest command string drawn as an input

Chars == {"a", "SP", "PIPE", "DOLLAR", "SQ", "DQ"}

SafeChars == {"a"}

MetaChars == {"PIPE", "DOLLAR"}

Texts(n) == UNION {[1..k -> Chars] : k \in 0..n}

-----------------------------------------------------------------------------
(* str.strip(): white space removed at both ends *)

RECURSIVE LStrip(_)
LStrip(s) ==
    IF s # <<>> /\ Head(s) = "SP" THEN LStrip(Tail(s)) ELSE s

RECURSIVE RStrip(_)
RStrip(s) ==
    IF s # <<>> /\ s[Len(s)] = "SP" THEN RStrip(SubSeq(s, 1, Len(s) - 1)) ELSE s

Strip(s) == RStrip(LStrip(s))

(* shlex.quote: the empty string becomes '', a string of safe characters   *)
(* is returned as it is, anything else is wrapped in single quotes with    *)
(* each single quote replaced by '"'"'                                     *)

RECURSIVE ReplaceSQ(_)
ReplaceSQ(s) ==
    IF s = <<>> THEN <<>>
    ELSE IF Head(s) = "SQ"
         THEN <<"SQ", "DQ", "SQ", "DQ", "SQ">> \o ReplaceSQ(Tail(s))
         ELSE <<Head(s)>> \o ReplaceSQ(Tail(s))

Quote(s) ==
    IF s = <<>> THEN <<"SQ", "SQ">>
    ELSE IF \A i \in 1..Len(s) : s[i] \in SafeChars THEN s
    ELSE <<"SQ">> \o ReplaceSQ(s) \o <<"SQ">>

(* shlex.split (POSIX mode): st is the lexer state, "ws" between tokens,   *)
(* "word" inside a token, "SQ"/"DQ" inside quotes; tok the token being     *)
(* read; toks the tokens read.  An unclosed quote is a ValueError.         *)

RECURSIVE SplitFrom(_, _, _, _)
SplitFrom(s, st, tok, toks) ==
    IF s = <<>>
    THEN CASE st \in {"SQ", "DQ"} -> [ok |-> FALSE, toks |-> <<>>]
           [] st = "word"         -> [ok |-> TRUE, toks |-> Append(toks, tok)]
           [] OTHER               -> [ok |-> TRUE, toks |-> toks]
    ELSE LET c == Head(s)
             r == Tail(s)
         IN CASE st = "ws" /\ c = "SP"           -> SplitFrom(r, "ws", <<>>, toks)
              [] st = "ws" /\ c \in {"SQ", "DQ"} -> SplitFrom(r, c, <<>>, toks)
              [] st = "ws"                       -> SplitFrom(r, "word", <<c>>, toks)
              [] st = "word" /\ c = "SP"         -> SplitFrom(r, "ws", <<>>, Append(toks, tok))
              [] st = "word" /\ c \in {"SQ", "DQ"} -> SplitFrom(r, c, tok, toks)
              [] st = "word"                     -> SplitFrom(r, "word", Append(tok, c), toks)
              [] st \in {"SQ", "DQ"} /\ c = st   -> SplitFrom(r, "word", tok, toks)
              [] OTHER                           -> SplitFrom(r, st, Append(tok, c), toks)

Split(s) == SplitFrom(s, "ws", <<>>, <<>>)

(* /bin/sh -c script: the shell's own reading of the script.  An operator  *)
(* character is shell syntax outside quotes, a substitution is expanded    *)
(* outside quotes and inside double quotes; inside single quotes           *)
(* everything is literal.  An unclosed quote is a syntax error and nothing *)
(* runs.                                                                   *)

RECURSIVE ShScan(_, _, _)
ShScan(s, st, active) ==
    IF s = <<>>
    THEN [syntaxError |-> st # "n", interpreted |-> (st = "n" /\ active)]
    ELSE LET c == Head(s)
             r == Tail(s)
         IN CASE st = "n" /\ c \in {"SQ", "DQ"}   -> ShScan(r, c, active)
              [] st = "n" /\ c \in MetaChars      -> ShScan(r, "n", TRUE)
              [] st = "n"                         -> ShScan(r, "n", active)
              [] st = c                           -> ShScan(r, "n", active)
              [] st = "DQ" /\ c = "DOLLAR"        -> ShScan(r, "DQ", TRUE)
              [] OTHER                            -> ShScan(r, st, active)

Sh(script) == ShScan(script, "n", FALSE)

HasMeta(s) == \E i \in 1..Len(s) : s[i] \in MetaChars


-----------------------------------------------------------------------------
(* The two runners, from the command string to the script the shell reads. *)

(* initgit.cmd: command = shlex.quote(command.strip()), then               *)
(* sp.run(shlex.split(command), shell=True): with shell=True and a list,   *)
(* the child is /bin/sh -c <first item>, the other items are the shell's   *)
(* positional parameters.                                                  *)
cmd_script(command) ==
    LET quoted == Quote(Strip(command))
        argv   == Split(quoted)
    IN [spawned |-> argv.ok,
        text    |-> quoted,
        script  |-> IF argv.ok /\ argv.toks # <<>> THEN argv.toks[1] ELSE <<>>]

(* _command.Command: text = shlex.quote(command.strip()).strip(),          *)
(* args = shlex.split(text), and run() is sp.run(self.text, shell=True):   *)
(* the child is /bin/sh -c <text>.                                         *)
Command_script(command) ==
    LET text == Strip(Quote(Strip(command)))
        argv == Split(text)
    IN [spawned |-> argv.ok,
        text    |-> text,
        script  |-> text]

QIdle == [runner |-> "none", spawned |-> FALSE, text |-> <<>>, script |-> <<>>,
          syntaxError |-> FALSE, interpreted |-> FALSE]

Executed(runner, r) ==
    [runner |-> runner, spawned |-> r.spawned, text |-> r.text, script |-> r.script,
     syntaxError |-> r.spawned /\ Sh(r.script).syntaxError,
     interpreted |-> r.spawned /\ Sh(r.script).interpreted]

QInit ==
    /\ qcmd \in Texts(MaxLen)
    /\ qrun = QIdle

(* cmd(command) of initgit.py *)
QCmd ==
    /\ qrun.runner = "none"
    /\ qrun' = Executed("initgit.cmd", cmd_script(qcmd))
    /\ UNCHANGED <<qcmd, cvars, ovars, svars, rvars>>

(* Command(command).run() of _command.py *)
QCommandRun ==
    /\ qrun.runner = "none"
    /\ qrun' = Executed("Command.run", Command_script(qcmd))
    /\ UNCHANGED <<qcmd, cvars, ovars, svars, rvars>>

QNext == QCmd \/ QCommandRun



-----------------------------------------------------------------------------
(* Exceptions.  Every exception is a record with a type; error_code -1 is  *)
(* None.                                                                   *)

NoCode == -1

NoExc == [type |-> "none"]

(* subprocess.CalledProcessError(returncode, cmd, output, stderr); its     *)
(* str() is "Command '<cmd>' returned non-zero exit status <n>."           *)
CalledProcessError(rc, cmdtext, stdout, stderr) ==
    [type |-> "CalledProcessError", returncode |-> rc, cmd |-> cmdtext,
     output |-> stdout, stderr |-> stderr]

StrOfCalledProcessError == "returned non-zero exit status"

StrOf(e) ==
    IF e.type = "CalledProcessError" THEN StrOfCalledProcessError ELSE e.type

(* CommandError.__init__(cmd, errcode, *args, **kwds): error_code,         *)
(* command and args are stored; the message shows args[0] and the keyword  *)
(* arguments only when there are positional args.  kwds is the set of the  *)
(* str() of the keyword values.  cause is the exception of "raise ... from *)
(* e".                                                                     *)
CommandError(cmdtext, errcode, posargs, kwds, cause) ==
    [type       |-> "CommandError",
     command    |-> cmdtext,
     error_code |-> errcode,
     args       |-> posargs,
     message    |-> IF posargs # <<>>
                    THEN [command |-> cmdtext, error_code |-> errcode,
                          detail |-> posargs[1], kwds |-> kwds]
                    ELSE [command |-> cmdtext, error_code |-> errcode,
                          detail |-> "", kwds |-> {}],
     cause      |-> cause]

(* The texts an error record holds in its own attributes (message, args). *)
TextsOf(e) ==
    {e.message.detail} \cup e.message.kwds \cup {e.args[i] : i \in 1..Len(e.args)}

-----------------------------------------------------------------------------
(* The Command object of _command.py                                       *)

MaxRuns == 3           \* invocations on one Command object

ExitCodes == {0, 1, 128}

Stdouts == {"", "out"}

Stderrs == {"", "fatal"}

ENOENT == 2

(* The status of /bin/sh -c when it finds no program of the name it looked *)
(* for.                                                                    *)
ShellNotFound == 127

(* What sp.run(text, shell=True, cwd=cwd) can end in.  The shell starts    *)
(* and exits: with the status of the program it ran (found), or with 127   *)
(* when it found no program of that name; run() fails with                 *)
(* FileNotFoundError before a child is started (notfound), or with         *)
(* another exception (other).  A program may itself exit with 2 or 127.    *)
Outcomes ==
    [kind : {"exit"}, found : {TRUE}, rc : ExitCodes \cup {ENOENT, ShellNotFound},
     stdout : Stdouts, stderr : Stderrs]
    \cup {[kind |-> "exit", found |-> FALSE, rc |-> ShellNotFound, stdout |-> "",
           stderr |-> "fatal"],
          [kind |-> "notfound", found |-> FALSE, rc |-> ENOENT, stdout |-> "",
           stderr |-> ""],
          [kind |-> "other", found |-> FALSE, rc |-> 0, stdout |-> "", stderr |-> ""]}

NoChild == [kind |-> "none", found |-> FALSE, rc |-> 0, stdout |-> "", stderr |-> ""]

(* The commands given to Command(...): nothing, a word, two words. *)
Commands == {<<>>, <<"a">>, <<"a", "SP", "a">>}

(* What the path given as cwd is. *)
CwdKinds == {"dir", "missing", "file"}

(* Command.__init__: nothing is rejected; the text of an empty command is  *)
(* the two quotes ''.                                                      *)
NewCommand(command, cwd, delay) ==
    [command |-> command, cwd |-> cwd, text |-> Strip(Quote(Strip(command))),
     error_code |-> 0, error |-> "None", output |-> "None", delay |-> delay,
     slept |-> FALSE]

(* The outcomes sp.run can have for the object: a missing cwd is a         *)
(* FileNotFoundError, a cwd that is a file a NotADirectoryError (another   *)
(* exception), and in a directory the shell runs the text: the empty word  *)
(* '' names no program.                                                    *)
Possible(obj, out) ==
    CASE obj.cwd = "missing" -> out.kind = "notfound"
      [] obj.cwd = "file"    -> out.kind = "other"
      [] OTHER               -> /\ out.kind \in {"exit", "other"}
                                /\ (out.kind = "exit" /\ obj.text = Quote(<<>>))
                                      => ~out.found

(* The finally block of Command.run: the delay fires unless _slept is set, *)
(* and _slept is set.                                                      *)
RunFinally(obj) ==
    [slept |-> TRUE, sleeps |-> IF obj.slept THEN 0 ELSE 1]

(* Command.run on obj when the child ends in out: the object after it, the *)
(* error raised, whether a value was returned, the sleeps fired.           *)
RunCommand(obj, out) ==
    LET sleeps == RunFinally(obj).sleeps
        slept  == RunFinally(obj).slept
    IN CASE out.kind = "exit" /\ out.rc = 0 ->
              [obj |-> [obj EXCEPT !.error = IF out.stderr # "" THEN out.stderr ELSE "None",
                                   !.output = IF out.stdout # "" THEN out.stdout ELSE "None",
                                   !.error_code = 0,
                                   !.slept = slept],
               raised |-> NoExc, returned |-> TRUE, sleeps |-> sleeps]
         [] out.kind = "exit" /\ out.rc # 0 ->
              LET e == CalledProcessError(out.rc, obj.text, out.stdout, out.stderr)
              IN [obj |-> [obj EXCEPT !.command = e.cmd,
                                      !.output = e.output,
                                      !.error_code = e.returncode,
                                      !.error = e.type,
                                      !.slept = slept],
                  raised |-> CommandError(e.cmd, e.returncode, <<>>, {StrOf(e)}, e),
                  returned |-> FALSE, sleeps |-> sleeps]
         [] out.kind = "notfound" ->
              LET e == [type |-> "FileNotFoundError", errno |-> ENOENT]
              IN [obj |-> [obj EXCEPT !.error_code = e.errno,
                                      !.error = e.type,
                                      !.output = "File not found",
                                      !.slept = slept],
                  raised |-> CommandError(obj.command, e.errno, <<>>,
                                          {"File not found", StrOf(e)}, e),
                  returned |-> FALSE, sleeps |-> sleeps]
         [] OTHER ->
              LET e == [type |-> "Exception"]
              IN [obj |-> [obj EXCEPT !.error_code = 69,
                                      !.error = e.type,
                                      !.output = "A generic error occurred",
                                      !.slept = slept],
                  raised |-> CommandError(obj.command, 69, <<>>,
                                          {StrOf(e), "A generic error occurred"}, e),
                  returned |-> FALSE, sleeps |-> sleeps]

(* Command.__exit__(exc): with an exception, error_code is read from       *)
(* exc_value.returncode (an AttributeError when the exception has none)    *)
(* and the exception propagates; without one the delay fires unless _slept *)
(* is set.                                                                 *)
ExitCommand(obj, exc_value) ==
    IF exc_value.type # "none"
    THEN IF exc_value.type = "CalledProcessError"
         THEN [obj |-> [obj EXCEPT !.error_code = exc_value.returncode, !.error = exc_value.type],
               raised |-> exc_value, sleeps |-> 0]
         ELSE [obj |-> obj, raised |-> [type |-> "AttributeError"], sleeps |-> 0]
    ELSE IF obj.error_code # 0
         THEN [obj |-> obj, raised |-> NoExc, sleeps |-> 0]
         ELSE [obj |-> [obj EXCEPT !.slept = TRUE], raised |-> NoExc,
               sleeps |-> IF obj.slept THEN 0 ELSE 1]

NoInv == [via |-> "none", sleeps |-> 0, raised |-> NoExc, returned |-> FALSE]

CInit ==
    /\ cobj \in {NewCommand(c, w, d) : c \in Commands, w \in CwdKinds, d \in {0, 2}}
    /\ child = NoChild
    /\ cinv = NoInv
    /\ cruns = 0

(* c.run() *)
CRun ==
    \E out \in Outcomes :
        LET r == RunCommand(cobj, out)
        IN /\ cruns < MaxRuns
           /\ Possible(cobj, out)
           /\ cobj' = r.obj
           /\ child' = out
           /\ cinv' = [via |-> "run", sleeps |-> r.sleeps, raised |-> r.raised,
                       returned |-> r.returned]
           /\ cruns' = cruns + 1
           /\ UNCHANGED <<qvars, ovars, svars, rvars>>

(* with c: <body>   -- __enter__ is run(); when it raises, __exit__ is not *)
(* called; otherwise the body runs (and may raise) and __exit__ follows.   *)
CWith ==
    \E out \in Outcomes, body \in {"ok", "ValueError"} :
        LET r == RunCommand(cobj, out)
            x == ExitCommand(r.obj, IF body = "ok" THEN NoExc ELSE [type |-> body])
        IN /\ cruns < MaxRuns
           /\ Possible(cobj, out)
           /\ child' = out
           /\ cruns' = cruns + 1
           /\ IF r.raised.type # "none"
              THEN /\ cobj' = r.obj
                   /\ cinv' = [via |-> "with", sleeps |-> r.sleeps, raised |-> r.raised,
                               returned |-> FALSE]
              ELSE /\ cobj' = x.obj
                   /\ cinv' = [via |-> "with", sleeps |-> r.sleeps + x.sleeps,
                               raised |-> x.raised, returned |-> x.raised.type = "none"]
           /\ UNCHANGED <<qvars, ovars, svars, rvars>>

(* CommandError(): raised without arguments, command and error_code are   *)
(* None.                                                                   *)
NoneCommand == <<"None">>

(* with cmd(command) as c: <body>   -- the context manager of _command.py: *)
(* "with command as com" runs the command; any exception of it, or of the  *)
(* caller's body (thrown in at the yield), is caught and "raise            *)
(* CommandError from e" raises a CommandError made without arguments.      *)
CCmd ==
    \E out \in Outcomes, body \in {"ok", "ValueError"} :
        LET r == RunCommand(cobj, out)
            x == ExitCommand(r.obj, NoExc)
            e == IF r.raised.type # "none" THEN r.raised
                 ELSE IF body # "ok" THEN [type |-> body] ELSE NoExc
        IN /\ cruns < MaxRuns
           /\ Possible(cobj, out)
           /\ child' = out
           /\ cruns' = cruns + 1
           /\ cobj' = IF r.raised.type # "none" THEN r.obj ELSE x.obj
           /\ cinv' = [via |-> "cmd",
                       sleeps |-> IF r.raised.type # "none" THEN r.sleeps
                                  ELSE r.sleeps + x.sleeps,
                       raised |-> IF e.type # "none"
                                  THEN CommandError(NoneCommand, NoCode, <<>>, {}, e)
                                  ELSE NoExc,
                       returned |-> e.type = "none"]
           /\ UNCHANGED <<qvars, ovars, svars, rvars>>

CNext == CRun \/ CWith \/ CCmd

CIdle ==
    /\ cobj = NewCommand(<<"a">>, "dir", 0)
    /\ child = NoChild
    /\ cinv = NoInv
    /\ cruns = 0


-----------------------------------------------------------------------------
(* The orchestrator of initgit.py                                          *)

MaxOut == 2            \* longest stdout a command returns (characters)

MaxPrompts == 2        \* re-prompts answered in one run

SelectorValues ==
    {"1", "2", "3", "4", "5", "6", "7", "8", "9", "init", "create", "add",
     "commit", "discard", "uncommit", "reset", "hard-reset", "revert", "fetch",
     "pull", "push"}

VisibilityValues == {"public", "private", "internal"}

(* The texts a user types: nothing, a word, two words. *)
Words == {<<>>, <<"a">>, <<"a", "SP", "a">>}

(* The command line.  cwd is the start directory of the process ("START")  *)
(* or another path ("D"); cwdStatus is what that path is.                  *)
ArgSpace ==
    {a \in [function_selector : SelectorValues \cup {"bogus"},
            commit_hash : {<<>>, <<"a">>},
            message     : Words,
            remote      : {<<>>, <<"a">>},
            filename    : {"none", "exists", "missing"},
            cwd         : {"START", "D"},
            cwdStatus   : {"dir", "file", "missing"},
            url         : {"none", "absolute", "relative"},
            visibility  : {"public", "private", "bogus"}] :
        a.cwd = "START" => a.cwdStatus = "dir"}

(* The directories that hold a .git directory, and COMMIT_EDITMSG of the   *)
(* start directory (MSGFILE).                                              *)
EnvSpace ==
    {e \in [gitdirs : SUBSET {"START", "D"},
            msgfile : [exists : BOOLEAN, text : Words \ {<<>>}]] :
        /\ e.msgfile.exists => "START" \in e.gitdirs
        /\ ~e.msgfile.exists => e.msgfile.text = <<"a">>}

(* The arguments the operations read after validation. *)
Used(a) ==
    [function_selector |-> a.function_selector, commit_hash |-> a.commit_hash,
     message |-> a.message, filename |-> a.filename, cwd |-> a.cwd]

NoArgs ==
    [function_selector |-> "none", commit_hash |-> <<>>, message |-> <<>>,
     filename |-> "none", cwd |-> "START"]

NoCall == [cmd |-> "none", cwd |-> "START", arg |-> <<>>]

(* validate_args: the first failing check calls parser.error, which exits  *)
(* the process with status 2.  answer is what the user types at the commit *)
(* hash prompt.                                                            *)
validate_args(a, answer) ==
    LET hash0 == IF a.commit_hash = <<>> THEN Quote(Strip(answer)) ELSE a.commit_hash
        hashy == a.function_selector \in {"revert", "hard-reset"}
        remote1 == IF a.remote # <<>> THEN Quote(Strip(a.remote)) ELSE a.remote
        reason ==
            CASE a.function_selector \notin SelectorValues -> "selector"
              [] hashy /\ hash0 = <<>>                    -> "commit_hash"
              [] a.filename = "missing"                   -> "filename"
              [] a.cwdStatus = "missing"                  -> "cwd missing"
              [] a.cwdStatus = "file"                     -> "cwd not a directory"
              [] a.url = "relative"                       -> "url"
              [] a.remote # <<>> /\ remote1 = <<>>        -> "remote"
              [] a.visibility \notin VisibilityValues     -> "visibility"
              [] OTHER                                    -> "ok"
    IN [ok |-> reason = "ok",
        reason |-> reason,
        args |-> [a EXCEPT !.commit_hash = IF hashy THEN Quote(Strip(hash0)) ELSE @,
                           !.message = IF @ # <<>> THEN Quote(Strip(@)) ELSE @,
                           !.remote = remote1]]

(* A question put to the user with input(), and the answer typed. *)
Question(at, prompt, answer) == [at |-> at, prompt |-> prompt, answer |-> answer]

(* The question of validate_args: the commit hash, when the selector needs *)
(* one and --hash gave none.                                               *)
AskedByValidate(a, answer) ==
    IF a.function_selector \in {"revert", "hard-reset"} /\ a.commit_hash = <<>>
    THEN <<Question("validate_args", "commit hash", answer)>>
    ELSE <<>>

(* The question of the single_init branch of a selector. *)
AskedBySingleInit(a, typed) ==
    CASE a.function_selector \in {"4", "commit"} /\ a.message = <<>> ->
              <<Question("single_init", "commit message", typed)>>
      [] a.function_selector \in {"discard", "uncommit"} ->
              <<Question("single_init", "file path", typed)>>
      [] a.function_selector \in {"hard-reset", "revert"} ->
              <<Question("single_init", "commit hash", typed)>>
      [] OTHER -> <<>>

(* Mutant: main_init leaves CURRENT_DIR as the module set it at import. *)
NewCurrentDir_start(a) == "START"

(* CURRENT_DIR = Path(args.cwd).absolute() of main_init *)
NewCurrentDir(a) == a.cwd

(* Mutant: parser.error returns and main_init goes on. *)
AfterValidate_goes_on(v) == "dispatch"

(* main_init after validate_args: a rejection has left the process.        *)
AfterValidate(v) == IF v.ok THEN "dispatch" ELSE "abort"

(* The selectors main_init hands to single_init (the list of line 644). *)
SingleInitSelectors ==
    {"1", "2", "3", "4", "5", "6", "7", "8", "push", "pull", "fetch", "uncommit",
     "discard", "revert", "hard-reset", "commit", "9"}

(* The one command of the single_init branches that run one command; the   *)
(* commands without a cwd argument run in CURRENT_DIR.                     *)
SimpleCommand(sel, cwd, current, typed) ==
    CASE sel = "5"          -> [cmd |-> "git status", cwd |-> cwd, arg |-> <<>>]
      [] sel = "7"          -> [cmd |-> "git branch -a", cwd |-> cwd, arg |-> <<>>]
      [] sel = "6"          -> [cmd |-> "git log --oneline", cwd |-> cwd, arg |-> <<>>]
      [] sel = "8"          -> [cmd |-> "git diff", cwd |-> cwd, arg |-> <<>>]
      [] sel = "discard"    -> [cmd |-> "git checkout --", cwd |-> cwd,
                                arg |-> Strip(Quote(typed))]
      [] sel = "uncommit"   -> [cmd |-> "git reset --soft HEAD~1", cwd |-> current,
                                arg |-> <<>>]
      [] sel = "hard-reset" -> [cmd |-> "git reset --hard", cwd |-> cwd,
                                arg |-> Strip(Strip(Quote(typed)))]
      [] sel = "revert"     -> [cmd |-> "git revert", cwd |-> cwd,
                                arg |-> Strip(Strip(Quote(typed)))]
      [] sel = "push"       -> [cmd |-> "git push -u origin master", cwd |-> cwd,
                                arg |-> <<>>]
      [] sel = "pull"       -> [cmd |-> "git pull origin master", cwd |-> cwd,
                                arg |-> <<>>]
      [] sel = "fetch"      -> [cmd |-> "git fetch origin", cwd |-> cwd, arg |-> <<>>]
      [] OTHER              -> NoCall

(* The first call site of a selector: op is the operation, pc the call     *)
(* site, none for a selector that runs nothing.                            *)
Dispatch(sel) ==
    CASE sel \notin SingleInitSelectors /\ sel \notin {"init", "create", "reset"} ->
              [op |-> "none", pc |-> "done"]
      [] sel = "init"         -> [op |-> "init", pc |-> "init_git"]
      [] sel = "create"       -> [op |-> "create", pc |-> "init_git"]
      [] sel = "reset"        -> [op |-> "reset", pc |-> "reset"]
      [] sel = "1"            -> [op |-> "single", pc |-> "init_git"]
      [] sel = "2"            -> [op |-> "single", pc |-> "pre_stage"]
      [] sel \in {"3", "add"} -> [op |-> "single", pc |-> "stage"]
      [] sel \in {"4", "commit"} -> [op |-> "single", pc |-> "commit"]
      [] sel = "9"            -> [op |-> "single", pc |-> "done"]
      [] OTHER                -> [op |-> "single", pc |-> "simple"]


(* What a child started by initgit.cmd can end in; outlen is the length of *)
(* the stripped stdout.                                                    *)
COutcomes ==
    {[kind |-> "exit", rc |-> 0, outlen |-> n, stderr |-> ""] : n \in 0..MaxOut}
    \cup {[kind |-> "exit", rc |-> c, outlen |-> 0, stderr |-> "fatal"] :
            c \in ExitCodes \ {0}}
    \cup {[kind |-> "notfound", rc |-> ENOENT, outlen |-> 0, stderr |-> ""],
          [kind |-> "other", rc |-> 1, outlen |-> 0, stderr |-> ""]}

(* cmd(command, cwd) of initgit.py when the child ends in out: the value   *)
(* returned (the length of the stripped stdout) or the CommandError        *)
(* raised, and the entry of the invocation log.                            *)
cmd(c, out) ==
    LET ok == out.kind = "exit" /\ out.rc = 0
        e  == CASE out.kind = "exit"     -> CalledProcessError(out.rc, c.cmd, "", out.stderr)
                [] out.kind = "notfound" -> [type |-> "FileNotFoundError", errno |-> ENOENT]
                [] OTHER                 -> [type |-> "Exception"]
        code == CASE out.kind = "exit"     -> out.rc
                  [] out.kind = "notfound" -> ENOENT
                  [] OTHER                 -> 1
    IN [ok     |-> ok,
        outlen |-> out.outlen,
        raised |-> IF ok THEN NoExc
                   ELSE CommandError(c.cmd, code, <<>>, {StrOf(e)}, e),
        entry  |-> [cmd |-> c.cmd, cwd |-> c.cwd, arg |-> c.arg, ok |-> ok,
                    code |-> IF ok THEN 0 ELSE code]]

OIdle ==
    /\ args = NoArgs
    /\ verdict = "none"
    /\ env = [gitdirs |-> {}, msgfile |-> [exists |-> FALSE, text |-> <<"a">>]]
    /\ CURRENT_DIR = "START"
    /\ pc = "idle"
    /\ op = "none"
    /\ call = NoCall
    /\ msg = <<>>
    /\ issued = <<>>
    /\ results = <<>>
    /\ fbouts = <<>>
    /\ exc = NoExc
    /\ status = "idle"
    /\ printed = {}
    /\ prompts = 0
    /\ exitcode = NoCode
    /\ asked = <<>>

(* The process has started: the module globals are set, main_init has not  *)
(* been called yet.                                                        *)
OInit ==
    /\ args = NoArgs
    /\ verdict = "none"
    /\ env \in EnvSpace
    /\ CURRENT_DIR = "START"
    /\ pc = "main"
    /\ op = "none"
    /\ call = NoCall
    /\ msg = <<>>
    /\ issued = <<>>
    /\ results = <<>>
    /\ fbouts = <<>>
    /\ exc = NoExc
    /\ status = "running"
    /\ printed = {}
    /\ prompts = 0
    /\ exitcode = NoCode
    /\ asked = <<>>

(* The run ends: main_init returns, or an exception leaves it. *)
Return(reports) ==
    /\ pc' = "done"
    /\ status' = "returned"
    /\ printed' = printed \cup reports
    /\ exc' = NoExc

Raise(e) ==
    /\ pc' = "done"
    /\ status' = "raised"
    /\ exc' = e
    /\ printed' = printed

Goto(label) ==
    /\ pc' = label
    /\ UNCHANGED <<status, exc, printed>>

(* main_init(a) up to the first call site: validate_args, the assignment  *)
(* of CURRENT_DIR, and the dispatch on the selector (with the prompts of   *)
(* single_init that come before its command).  A path that is no directory *)
(* holds no .git.                                                          *)
MainInit ==
    /\ pc = "main"
    /\ \E a \in ArgSpace, answer \in {<<>>, <<"a">>}, typed \in {<<>>, <<"a">>} :
        LET v == validate_args(a, answer)
            d == Dispatch(v.args.function_selector)
        IN /\ (a.cwd = "START" \/ a.cwdStatus # "dir") => "D" \notin env.gitdirs
           /\ verdict' = v.reason
           /\ IF AfterValidate(v) = "abort"
              THEN /\ pc' = "done"
                   /\ status' = "aborted"
                   /\ exc' = [type |-> "SystemExit", code |-> 2]
                   /\ args' = Used(a)
                   /\ asked' = AskedByValidate(a, answer)
                   /\ UNCHANGED <<CURRENT_DIR, op, call, msg, printed>>
              ELSE /\ args' = Used(v.args)
                   /\ asked' = AskedByValidate(a, answer) \o AskedBySingleInit(v.args, typed)
                   /\ CURRENT_DIR' = NewCurrentDir(v.args)
                   /\ op' = d.op
                   /\ call' = SimpleCommand(v.args.function_selector, v.args.cwd,
                                            NewCurrentDir(v.args), typed)
                   /\ msg' = IF d.op = "single" /\ d.pc = "commit"
                             THEN Strip(Quote(IF v.args.message # <<>>
                                              THEN v.args.message ELSE typed))
                             ELSE v.args.message
                   /\ IF d.pc = "done" THEN Return({}) ELSE Goto(d.pc)
           /\ UNCHANGED <<env, issued, results, fbouts, prompts>>
           /\ UNCHANGED <<qvars, cvars, svars, rvars, exitcode>>

(* A single_init branch that runs one command and reports. *)
Simple ==
    /\ pc = "simple"
    /\ \E out \in COutcomes :
        LET r == cmd(call, out)
        IN /\ issued' = Append(issued, r.entry)
           /\ IF r.ok THEN Return({"done: " \o call.cmd}) ELSE Raise(r.raised)
           /\ UNCHANGED <<args, verdict, env, CURRENT_DIR, op, call, msg, results,
                          fbouts, prompts>>
           /\ UNCHANGED <<qvars, cvars, svars, rvars, exitcode, asked>>


(* init_git(cwd, branch): git init -b <branch>; a successful git init      *)
(* leaves a .git directory in cwd.                                         *)
InitGit ==
    /\ pc = "init_git"
    /\ \E out \in COutcomes :
        LET r == cmd([cmd |-> "git init -b", cwd |-> args.cwd, arg |-> <<>>], out)
        IN /\ issued' = Append(issued, r.entry)
           /\ env' = IF r.ok THEN [env EXCEPT !.gitdirs = @ \cup {args.cwd}] ELSE env
           /\ IF ~r.ok THEN Raise(r.raised)
              ELSE IF op = "single" THEN Return({"Git repository initialized"})
              ELSE Goto("pre_stage_1")
           /\ UNCHANGED <<args, verdict, CURRENT_DIR, op, call, msg, results, fbouts,
                          prompts>>
           /\ UNCHANGED <<qvars, cvars, svars, rvars, exitcode, asked>>

(* pre_stage: the loop over pre_stage_commands, one command a step. *)
pre_stage_commands ==
    <<"echo > .gitignore", "echo > README.md", "echo > LICENSE.txt">>

PreStageIndex ==
    CASE pc = "pre_stage_1" -> 1
      [] pc = "pre_stage_2" -> 2
      [] OTHER              -> 3

PreStageLabel(k) ==
    CASE k = 1 -> "pre_stage_1"
      [] k = 2 -> "pre_stage_2"
      [] OTHER -> "pre_stage_3"

PreStage ==
    /\ pc \in {"pre_stage_1", "pre_stage_2", "pre_stage_3"}
    /\ \E out \in COutcomes :
        LET k == PreStageIndex
            r == cmd([cmd |-> pre_stage_commands[k], cwd |-> args.cwd, arg |-> <<>>], out)
        IN /\ issued' = Append(issued, r.entry)
           /\ IF ~r.ok THEN Raise(r.raised)
              ELSE IF k < Len(pre_stage_commands) THEN Goto(PreStageLabel(k + 1))
              ELSE IF op = "single" THEN Return({"Pre-stage files created"})
              ELSE Goto("stage")
           /\ UNCHANGED <<args, verdict, env, CURRENT_DIR, op, call, msg, results, fbouts,
                          prompts>>
           /\ UNCHANGED <<qvars, cvars, svars, rvars, exitcode, asked>>

(* stage(cwd): git add <cwd> *)
Stage ==
    /\ pc = "stage"
    /\ \E out \in COutcomes :
        LET r == cmd([cmd |-> "git add", cwd |-> args.cwd, arg |-> <<>>], out)
        IN /\ issued' = Append(issued, r.entry)
           /\ IF ~r.ok THEN Raise(r.raised)
              ELSE IF op = "single" THEN Return({"Files staged"})
              ELSE Goto("commit")
           /\ UNCHANGED <<args, verdict, env, CURRENT_DIR, op, call, msg, results, fbouts,
                          prompts>>
           /\ UNCHANGED <<qvars, cvars, svars, rvars, exitcode, asked>>

(* The except block of commit: the CommandError of git commit is printed   *)
(* and not raised again.                                                   *)
CommitHandler(e) == "swallow"

(* The text git commit -m <message> leaves in COMMIT_EDITMSG: the shell    *)
(* takes the quotes off the message.                                       *)
Committed(message) ==
    LET w == Split(message)
    IN IF w.ok /\ w.toks # <<>> THEN w.toks[1] ELSE message

(* commit(cwd, message).  GITDIR and MSGFILE are module globals set from   *)
(* the start directory of the process.  The message is quoted; without     *)
(* GITDIR the call raises; a message found in MSGFILE is asked for again   *)
(* and commit calls itself with the answer; otherwise git commit runs.     *)
Commit ==
    /\ pc = "commit"
    /\ \E out \in COutcomes, typed \in Words, again \in Words :
        LET message  == Strip(Quote(IF msg # <<>> THEN msg ELSE typed))
            messages == Split(Quote(Strip(env.msgfile.text))).toks
            stripped == {Strip(messages[i]) : i \in 1..Len(messages)}
            known    == \/ \E i \in 1..Len(messages) : messages[i] = message
                        \/ message \in stripped
                        \/ message = <<>>
            r == cmd([cmd |-> "git commit -m", cwd |-> args.cwd, arg |-> message], out)
            after == CASE op = "single" -> {"Changes committed"}
                       [] op = "init"   -> {"Initialized git repository"}
                       [] OTHER         -> {}
        IN IF "START" \notin env.gitdirs
           THEN /\ Raise(CommandError("git init", 1, <<"No git repository found.">>,
                                      {}, NoExc))
                /\ UNCHANGED <<msg, prompts, issued, env>>
           ELSE IF env.msgfile.exists /\ known
           THEN /\ prompts < MaxPrompts
                /\ msg' = Quote(Strip(again))
                /\ prompts' = prompts + 1
                /\ Goto("commit")
                /\ UNCHANGED <<issued, env>>
           ELSE /\ issued' = Append(issued, r.entry)
                /\ env' = IF r.ok /\ args.cwd = "START"
                          THEN [env EXCEPT !.msgfile = [exists |-> TRUE,
                                                       text |-> Committed(message)]]
                          ELSE env
                /\ IF ~r.ok /\ CommitHandler(r.raised) = "raise"
                   THEN Raise(r.raised)
                   ELSE IF op = "create"
                   THEN /\ pc' = "primary"
                        /\ printed' = printed \cup (IF r.ok THEN {} ELSE {"Commit failed"})
                        /\ UNCHANGED <<status, exc>>
                   ELSE Return(after \cup (IF r.ok THEN {} ELSE {"Commit failed"}))
                /\ UNCHANGED <<msg, prompts>>
    /\ UNCHANGED <<args, verdict, CURRENT_DIR, op, call, results, fbouts>>
    /\ UNCHANGED <<qvars, cvars, svars, rvars, exitcode, asked>>

-----------------------------------------------------------------------------
(* create_repo, after commit_context has yielded.                          *)

(* An entry of _results: a (name, value) tuple, where the value is the     *)
(* string cmd returned or a CommandError, or a bare string (the values of  *)
(* the fallback commands, added with extend).  outlen is the length of the *)
(* string.  No entry holds an int: cmd returns proc.stdout.strip().        *)
PairOfValue(name, outlen) ==
    [shape |-> "pair", name |-> name, isErr |-> FALSE, outlen |-> outlen, code |-> 0]

PairOfError(e) ==
    [shape |-> "pair", name |-> e.command, isErr |-> TRUE, outlen |-> 0,
     code |-> e.error_code]

BareString(outlen) ==
    [shape |-> "str", name |-> "", isErr |-> FALSE, outlen |-> outlen, code |-> 0]

(* Mutant: the remote is added before the branch is renamed. *)
backupcmds_remote_first ==
    <<"git remote add origin", "git branch -m master", "git push -u origin master">>

backupcmds ==
    <<"git branch -m master", "git remote add origin", "git push -u origin master">>

(* The condition under which the primary command's error starts the        *)
(* fallback.                                                               *)
StartsFallback(e) == e.type = "CommandError" /\ e.error_code = 1

(* Mutant: a failed fallback command starts the fallback again. *)
OnFallbackError_retry == "fallback"

(* What the handler of a failed fallback command does next. *)
OnFallbackError == "raise"

(* r[1] of an entry: the value of a tuple, the second character of a bare  *)
(* string (an IndexError when it has none).  Neither is ever an int.       *)
SecondIsIndexError(r) == r.shape = "str" /\ r.outlen < 2

(* all(isinstance(r[1], int) and r[1] == 0 for r in _results): the first   *)
(* entry decides, as no r[1] is an int.                                    *)
AllIntZero(rs) ==
    IF rs = <<>> THEN "true"
    ELSE IF SecondIsIndexError(rs[1]) THEN "IndexError" ELSE "false"

(* Lines 388-414 of create_repo: the report printed and how the function   *)
(* ends: "none" is a normal return.                                        *)
Report(rs) ==
    LET allok   == AllIntZero(rs)
        says    == IF allok = "true" THEN {"Repository created and added as origin"}
                   ELSE IF allok = "false"
                   THEN {"Failed to create local and remote repository"}
                   ELSE {}
        loop396 == allok = "false" /\ \E i \in 1..Len(rs) : SecondIsIndexError(rs[i])
        loop407 == \E i \in 1..Len(rs) : rs[i].shape = "str" /\ rs[i].outlen # 2
        join414 == \E i \in 1..Len(rs) : rs[i].shape # "str"
    IN [printed |-> says,
        raised  |-> CASE allok = "IndexError" -> "IndexError"
                      [] loop396              -> "IndexError"
                      [] loop407              -> "ValueError"
                      [] join414              -> "TypeError"
                      [] OTHER                -> "none"]

(* The with block of create_repo is left without an exception: the report  *)
(* runs, and main_init prints its own line when create_repo returns.       *)
Finish(rs, said) ==
    LET rep == Report(rs)
    IN IF rep.raised = "none"
       THEN Return(said \cup rep.printed \cup {"Remote repository created"})
       ELSE /\ pc' = "done"
            /\ status' = "raised"
            /\ exc' = [type |-> rep.raised]
            /\ printed' = printed \cup said \cup rep.printed

(* The primary command: gh repo create ... *)
Primary ==
    /\ pc = "primary"
    /\ \E out \in COutcomes :
        LET r == cmd([cmd |-> "gh repo create", cwd |-> args.cwd, arg |-> <<>>], out)
            rs == IF r.ok THEN <<PairOfValue("gh", r.outlen)>>
                  ELSE <<PairOfError(r.raised)>>
        IN /\ issued' = Append(issued, r.entry)
           /\ results' = rs
           /\ IF r.ok THEN Finish(rs, {})
              ELSE IF StartsFallback(r.raised)
              THEN /\ pc' = "fallback"
                   /\ printed' = printed \cup {"Command failed", "trying alternate"}
                   /\ UNCHANGED <<status, exc>>
              ELSE Finish(rs, {"Command failed"})
    /\ UNCHANGED <<args, verdict, env, CURRENT_DIR, op, call, msg, fbouts, prompts>>
    /\ UNCHANGED <<qvars, cvars, svars, rvars, exitcode, asked>>

(* [cmd(c) for c in backupcmds], one command a step: the commands run in   *)
(* CURRENT_DIR; the values are added to _results when all three have       *)
(* returned; a CommandError of one ends the sequence and is raised again   *)
(* as a new CommandError.                                                  *)
Fallback ==
    /\ pc = "fallback"
    /\ \E out \in COutcomes :
        LET k  == Len(fbouts) + 1
            r  == cmd([cmd |-> backupcmds[k], cwd |-> CURRENT_DIR, arg |-> <<>>], out)
            vs == Append(fbouts, r.outlen)
            rs == results \o [i \in 1..Len(vs) |-> BareString(vs[i])]
        IN /\ issued' = Append(issued, r.entry)
           /\ IF r.ok
              THEN IF k < Len(backupcmds)
                   THEN /\ fbouts' = vs
                        /\ Goto("fallback")
                        /\ UNCHANGED results
                   ELSE /\ fbouts' = vs
                        /\ results' = rs
                        /\ Finish(rs, {})
              ELSE /\ results' = Append(results, PairOfError(r.raised))
                   /\ IF OnFallbackError = "raise"
                      THEN /\ Raise(CommandError(r.raised.command, r.raised.error_code,
                                                 <<"Failed to create remote repository">>,
                                                 {}, r.raised))
                           /\ UNCHANGED fbouts
                      ELSE /\ fbouts' = <<>>
                           /\ Goto(OnFallbackError)
    /\ UNCHANGED <<args, verdict, env, CURRENT_DIR, op, call, msg, prompts>>
    /\ UNCHANGED <<qvars, cvars, svars, rvars, exitcode, asked>>

(* reset(cwd, filename): with a filename, _reset_stage; without one the    *)
(* user is asked: f and a filename lead to _reset_stage, c to              *)
(* _reset_commit, anything else to the question again.   _reset_stage      *)
(* quotes str(filename), which is the text None for no filename.           *)
FileText == <<"a">>

NoneText == <<"a", "a", "a", "a">>

Reset ==
    /\ pc = "reset"
    /\ \E which \in {"f", "c", "x"}, typed \in {<<>>, <<"a">>} :
        CASE args.filename # "none" ->
               /\ call' = [cmd |-> "git reset HEAD", cwd |-> args.cwd,
                           arg |-> Quote(Strip(FileText))]
               /\ Goto("simple")
               /\ UNCHANGED <<prompts, asked>>
          [] args.filename = "none" /\ which = "f" ->
               /\ call' = [cmd |-> "git reset HEAD", cwd |-> args.cwd,
                           arg |-> Quote(Strip(IF typed # <<>> THEN typed ELSE NoneText))]
               /\ asked' = asked \o <<Question("reset", "file or commit", <<which>>),
                                       Question("reset", "filename", typed)>>
               /\ Goto("simple")
               /\ UNCHANGED prompts
          [] args.filename = "none" /\ which = "c" ->
               /\ call' = [cmd |-> "git reset --soft HEAD~1", cwd |-> CURRENT_DIR,
                           arg |-> <<>>]
               /\ asked' = Append(asked, Question("reset", "file or commit", <<which>>))
               /\ Goto("simple")
               /\ UNCHANGED prompts
          [] OTHER ->
               /\ prompts < MaxPrompts
               /\ prompts' = prompts + 1
               /\ asked' = Append(asked, Question("reset", "file or commit", <<which>>))
               /\ Goto("reset")
               /\ UNCHANGED call
    /\ UNCHANGED <<args, verdict, env, CURRENT_DIR, op, msg, issued, results, fbouts>>
    /\ UNCHANGED <<qvars, cvars, svars, rvars, exitcode>>

(* sys.exit(n): the status the parent of the process sees is n modulo 256. *)
sys_exit(n) == n % 256

(* Mutant: the top level exits with 1 for every CommandError. *)
ExitCodeOf_always_one(e) == 1

(* The except blocks of __main__: a CommandError exits with its error_code, *)
(* or with 1 when that is None or 0; any other Exception exits with 1.     *)
ExitCodeOf(e) ==
    IF e.type = "CommandError"
    THEN IF e.error_code # NoCode /\ e.error_code # 0 THEN e.error_code ELSE 1
    ELSE 1

(* The top level of __main__ once main_init has ended: the script runs off *)
(* its end (status 0), the SystemExit of parser.error leaves it (status 2), *)
(* or an except block calls sys.exit.                                      *)
TopLevel ==
    /\ pc = "done"
    /\ pc' = "exited"
    /\ exitcode' = CASE status = "returned" -> 0
                     [] status = "aborted"  -> sys_exit(exc.code)
                     [] OTHER               -> sys_exit(ExitCodeOf(exc))
    /\ UNCHANGED <<args, verdict, env, CURRENT_DIR, op, call, msg, issued, results, fbouts,
                   exc, status, printed, prompts, asked>>
    /\ UNCHANGED <<qvars, cvars, svars, rvars>>

ONext ==
    \/ MainInit
    \/ Simple
    \/ InitGit
    \/ PreStage
    \/ Stage
    \/ Commit
    \/ Primary
    \/ Fallback
    \/ Reset
    \/ TopLevel

-----------------------------------------------------------------------------
(* pre_stage run twice on one directory                                     *)

MaxDesc == 2           \* longest description drawn as an input

MaxStamp == 2          \* distinct outputs a substituted command can give

ScaffoldFiles == {".gitignore", "README.md", "LICENSE.txt"}

(* GIT_IGNORE and LICENSE: the text of _gitignore.txt, and the quoted text *)
(* of the license: texts without a double quote or a substitution.         *)
GIT_IGNORE == <<"a">>

LICENSE == Quote(<<"a", "SP", "a">>)

(* The line break of the README command: literal inside quotes, the end of *)
(* a command outside them, as the operator characters are.                 *)
NewLine == "PIPE"

(* echo "<text>": the part of a command the shell reads before the         *)
(* redirection.                                                            *)
Echo(text) == <<"a", "SP", "DQ">> \o text \o <<"DQ">>

(* pre_stage_commands for a repository name and a description: both are    *)
(* quoted with shlex.quote and put between the double quotes of echo; each *)
(* command redirects the output of echo to its file with >.                *)
pre_stage_scripts(name, description) ==
    LET repo_name == Strip(Quote(name))
        descr     == Strip(Quote(description))
    IN <<[file |-> ".gitignore", body |-> Echo(Strip(GIT_IGNORE))],
         [file |-> "README.md",
          body |-> Echo(<<"a", "SP">> \o Strip(repo_name) \o <<NewLine>> \o Strip(descr))],
         [file |-> "LICENSE.txt", body |-> Echo(<<"a", "SP">> \o Strip(LICENSE))]>>

AbsentFile == [kind |-> "absent", text |-> <<>>, stamp |-> 0]

UserFile == [kind |-> "user", text |-> <<>>, stamp |-> 0]

(* Mutant: the commands append to the file (>>). *)
Redirect_append(old, new) ==
    [kind |-> "appended", text |-> old.text \o new.text, stamp |-> new.stamp]

(* command > file: the file is replaced by the output of the command. *)
Redirect(old, new) == new

(* What the command writes: when the shell reads the body as one echo of   *)
(* literal text, that text; when it expands a substitution in it or reads  *)
(* an operator, the output of the commands it runs at that moment (stamp). *)
Output(body, stamp) ==
    IF Sh(body).interpreted
    THEN [kind |-> "output", text |-> body, stamp |-> stamp]
    ELSE [kind |-> "literal", text |-> body, stamp |-> 0]

SIdle ==
    /\ files = [f \in ScaffoldFiles |-> AbsentFile]
    /\ sin = [name |-> <<>>, description |-> <<>>]
    /\ srun = 0
    /\ sk = 0
    /\ after1 = [f \in ScaffoldFiles |-> AbsentFile]
    /\ sstat = "idle"

(* pre_stage is called on a directory whose README.md is absent or written *)
(* by the user.                                                            *)
SInit ==
    /\ \E readme \in {AbsentFile, UserFile} :
          files = [f \in ScaffoldFiles |-> IF f = "README.md" THEN readme ELSE AbsentFile]
    /\ sin \in [name : {<<"a">>, <<"a", "SP", "a">>}, description : Texts(MaxDesc)]
    /\ srun = 1
    /\ sk = 1
    /\ after1 = [f \in ScaffoldFiles |-> AbsentFile]
    /\ sstat = "running"

(* One turn of the loop of pre_stage: cmd(command, cwd).  A body the shell *)
(* cannot parse, or a redirection that fails, makes cmd raise and leaves   *)
(* the file as it was; after the last command pre_stage returns.           *)
ScaffoldStep ==
    /\ sstat = "running"
    /\ \E ok \in BOOLEAN, stamp \in 1..MaxStamp :
        LET c == pre_stage_scripts(sin.name, sin.description)[sk]
            last == sk = Len(pre_stage_scripts(sin.name, sin.description))
        IN IF Sh(c.body).syntaxError \/ ~ok
           THEN /\ sstat' = "raised"
                /\ UNCHANGED <<files, sk, after1>>
           ELSE /\ files' = [files EXCEPT ![c.file] = Redirect(@, Output(c.body, stamp))]
                /\ sk' = sk + 1
                /\ sstat' = IF last THEN "done" ELSE "running"
                /\ after1' = IF last /\ srun = 1 THEN files' ELSE after1
    /\ UNCHANGED <<sin, srun>>
    /\ UNCHANGED <<qvars, cvars, ovars, rvars>>

(* pre_stage is called again on the directory with the same name and       *)
(* description.                                                            *)
ScaffoldAgain ==
    /\ sstat = "done"
    /\ srun = 1
    /\ srun' = 2
    /\ sk' = 1
    /\ sstat' = "running"
    /\ UNCHANGED <<files, sin, after1>>
    /\ UNCHANGED <<qvars, cvars, ovars, rvars>>

SNext == ScaffoldStep \/ ScaffoldAgain

-----------------------------------------------------------------------------
(* The Dependency Scanner of util.py: generate_requirements(root)          *)

MaxFiles == 2          \* source files in the scanned tree

(* The names that occur: a standard-library module, the package of the     *)
(* scanned project, the name of its root directory, a third-party package. *)
ModNames == {"os", "pkg", "proj", "requests"}

(* sys.stdlib_module_names *)
STDLIB_MODULES == {"os"}

(* The module names IMPORT_RE finds in an import statement: a name, or a   *)
(* dotted name, as the sequence of its parts.                              *)
ImportNames ==
    {<<"os">>, <<"os", "path">>, <<"pkg">>, <<"pkg", "sub">>, <<"requests">>}

(* The scanned tree: where its __init__.py / __main__.py are, the name of  *)
(* its root directory, and its .py files, each with one import statement,  *)
(* in the order root.walk() lists them: the first rootfiles of them in the *)
(* root directory, the others in one subdirectory.  unreadable holds the   *)
(* files whose read_text raises (encoding, missing, permission).           *)
(*   root_init   __init__.py in the root, which is the package pkg         *)
(*   root_main   __main__.py in the root, no package                       *)
(*   sub_init    a subdirectory pkg with __init__.py                       *)
(*   sub_noinit  subdirectories, none with __init__.py                     *)
(*   flat        no subdirectory, no __init__.py                           *)
Projects ==
    {pr \in [layout : {"root_init", "root_main", "sub_init", "sub_noinit", "flat"},
             root   : {"pkg", "proj"},
             files  : UNION {[1..n -> ImportNames] : n \in 1..MaxFiles},
             rootfiles  : 0..MaxFiles,
             unreadable : SUBSET (1..MaxFiles)] :
        /\ pr.root = "pkg" <=> pr.layout = "root_init"
        /\ pr.rootfiles <= Len(pr.files)
        /\ pr.layout = "flat" => pr.rootfiles = Len(pr.files)
        /\ pr.unreadable \subseteq 1..Len(pr.files)}

(* What the scanning process knows of a module name: what                  *)
(* importlib.util.find_spec gives for it (none; or an origin that is       *)
(* built-in, under site-packages, or elsewhere), whether it is in          *)
(* sys.modules, and the version pip show reports (none when pip knows no   *)
(* distribution of that name).                                             *)
ModuleFacts ==
    {mf \in [spec : {"none", "builtin", "elsewhere", "site"}, loaded : BOOLEAN,
             version : {"none", "v1"}] :
        /\ mf.spec = "none" => ~mf.loaded
        /\ mf.spec # "site" => mf.version = "none"
        /\ mf.spec = "builtin" => mf.loaded}

(* The scanning process: the facts of each name, and whether sys.modules   *)
(* holds an entry without a __spec__ attribute (typing.io and typing.re of *)
(* Python before 3.13 are such entries).                                   *)
PyEnvs ==
    {pe \in [facts : [ModNames -> ModuleFacts], nospec : BOOLEAN] :
        /\ pe.facts["os"] = [spec |-> "elsewhere", loaded |-> TRUE, version |-> "none"]
        /\ pe.facts["proj"] = [spec |-> "none", loaded |-> FALSE, version |-> "none"]}

(* all_modules(): the top-level names of the modules in sys.modules; the   *)
(* read of mod.__spec__ is an AttributeError for an entry without one.     *)
all_modules(pe) == {n \in ModNames : pe.facts[n].loaded}

all_modules_raises(pe) == pe.nospec

(* Mutant: no module is taken for a standard-library module. *)
is_stdlib_never(pe, module_name) == FALSE

(* is_stdlib / _is_stdlib(module_name) *)
is_stdlib(pe, module_name) ==
    LET top_level == module_name[1]
        spec      == pe.facts[top_level].spec
    IN IF top_level \in STDLIB_MODULES
          \/ (Len(module_name) = 1 /\ module_name[1] \in STDLIB_MODULES)
       THEN TRUE
       ELSE IF spec = "none" THEN FALSE
       ELSE IF spec = "builtin" THEN TRUE
       ELSE spec # "site"

(* find_top_package_name(root): StopIteration is the next() over no item   *)
(* when the root has subdirectories and none holds __init__.py; None when  *)
(* it has no subdirectory.                                                 *)
find_top_package_name(pr) ==
    CASE pr.layout \in {"root_init", "root_main"} -> pr.root
      [] pr.layout = "sub_init"                    -> "pkg"
      [] pr.layout = "sub_noinit"                  -> "StopIteration"
      [] OTHER                                     -> "None"

(* The test of find_imports for one module name found in a file: the name *)
(* is added, left out, or all_modules() raises (it is called only for a    *)
(* name that is not the package and not taken for standard library).       *)
Examine(pe, package_name, mod) ==
    LET top_level == mod[1]
    IN IF top_level = package_name THEN "leave"
       ELSE IF ~(~is_stdlib(pe, mod) \/ ~is_stdlib(pe, <<top_level>>)) THEN "leave"
       ELSE IF all_modules_raises(pe) THEN "AttributeError"
       ELSE IF top_level \in all_modules(pe) THEN "add"
       ELSE "leave"

(* sorted(...) of a set of names *)
SortedNames == <<"os", "pkg", "proj", "requests">>

Sorted(S) ==
    LET Test(n) == n \in S
    IN SelectSeq(SortedNames, Test)

(* The entry of generate_requirements for a package: name==version when    *)
(* get_installed_version finds a version, the bare name when not.          *)
Requirement(pe, pkg) ==
    IF pe.facts[pkg].version # "none" THEN <<pkg, "==", pe.facts[pkg].version>>
    ELSE <<pkg>>

NoScan == [pc |-> "idle", package_name |-> "None", pos |-> 0, imports |-> {},
           unread |-> FALSE, failed |-> FALSE, said |-> {}]

(* requirements.txt: absent, or a file with its lines.  A file the user    *)
(* wrote before the scan holds one entry of their own.                     *)
NoRequirementsFile == [exists |-> FALSE, lines |-> <<>>]

UserRequirements == [exists |-> TRUE, lines |-> << <<"mine", "==", "v1">> >>]

(* requirements_exists(cwd) *)
requirements_exists(f) == f.exists

(* The last file of the directory that holds the file at position pos. *)
EndOfDir(pr, pos) == IF pos <= pr.rootfiles THEN pr.rootfiles ELSE Len(pr.files)

(* Mutant: a file that cannot be read ends the scan with the exception. *)
OnUnreadable_raises(pr, s) == [s EXCEPT !.pc = "raised", !.unread = TRUE]

(* The except clauses of find_imports for a file that cannot be read: a    *)
(* message, and continue with the next directory of the walk.              *)
OnUnreadable(pr, s) == [s EXCEPT !.pos = EndOfDir(pr, s.pos) + 1, !.unread = TRUE]

RIdle ==
    /\ project = [layout |-> "flat", root |-> "proj", files |-> <<>>,
                  rootfiles |-> 0, unreadable |-> {}]
    /\ pyenv = [facts |-> [n \in ModNames |->
                              [spec |-> "none", loaded |-> FALSE, version |-> "none"]],
                nospec |-> FALSE]
    /\ scan = NoScan
    /\ reqs = <<>>
    /\ reqfile = NoRequirementsFile

RInit ==
    /\ project \in Projects
    /\ pyenv \in PyEnvs
    /\ scan = [NoScan EXCEPT !.pc = "start"]
    /\ reqs = <<>>
    /\ reqfile \in {NoRequirementsFile, UserRequirements}

(* generate_requirements up to the call of find_imports: the package name  *)
(* is the one find_top_package_name gives, or the name of the root.        *)
GenerateRequirements ==
    /\ scan.pc = "start"
    /\ LET name == find_top_package_name(project)
       IN scan' = IF name = "StopIteration"
                  THEN [scan EXCEPT !.pc = "raised"]
                  ELSE [scan EXCEPT !.pc = "files", !.pos = 1,
                                    !.package_name = IF name = "None" THEN project.root
                                                     ELSE name]
    /\ UNCHANGED <<project, pyenv, reqs, reqfile>>
    /\ UNCHANGED <<qvars, cvars, ovars, svars>>

(* find_imports, one file a step.  The try is around the loop over the     *)
(* files of a directory: a file that cannot be read, or an exception while *)
(* a name is examined, ends the loop, and the files left in that directory *)
(* are not read.                                                           *)
FindImports ==
    /\ scan.pc = "files"
    /\ scan.pos <= Len(project.files)
    /\ LET mod == project.files[scan.pos]
           ex  == Examine(pyenv, scan.package_name, mod)
       IN scan' = IF scan.pos \in project.unreadable
                  THEN OnUnreadable(project, scan)
                  ELSE IF ex = "AttributeError"
                  THEN [scan EXCEPT !.pos = EndOfDir(project, scan.pos) + 1,
                                    !.failed = TRUE]
                  ELSE [scan EXCEPT !.pos = @ + 1,
                                    !.imports = IF ex = "add" THEN @ \cup {mod[1]} ELSE @]
    /\ UNCHANGED <<project, pyenv, reqs, reqfile>>
    /\ UNCHANGED <<qvars, cvars, ovars, svars>>

(* find_imports returns sorted(imports); generate_requirements makes an    *)
(* entry of each and returns the sorted list.                              *)
Requirements ==
    /\ scan.pc = "files"
    /\ scan.pos > Len(project.files)
    /\ LET imports == Sorted(scan.imports)
       IN reqs' = [i \in 1..Len(imports) |-> Requirement(pyenv, imports[i])]
    /\ scan' = [scan EXCEPT !.pc = "returned",
                            !.said = IF scan.imports = {} THEN @ \cup {"No imports found"}
                                     ELSE @]
    /\ UNCHANGED <<project, pyenv, reqfile>>
    /\ UNCHANGED <<qvars, cvars, ovars, svars>>

(* generate(root) around its call of generate_requirements: the message    *)
(* when requirements.txt exists, then, with the list returned, touch of a  *)
(* missing file, and either the message that nothing was found or          *)
(* write_text of the entries, one a line.                                  *)
Generate ==
    /\ scan.pc = "returned"
    /\ LET exists == IF requirements_exists(reqfile) THEN {"already exists. Skipping"}
                     ELSE {}
           touched == IF reqfile.exists THEN reqfile
                      ELSE [exists |-> TRUE, lines |-> <<>>]
       IN IF reqs = <<>>
          THEN /\ reqfile' = touched
               /\ scan' = [scan EXCEPT !.pc = "generated",
                                       !.said = @ \cup exists \cup {"No requirements found"}]
          ELSE /\ reqfile' = [exists |-> TRUE, lines |-> reqs]
               /\ scan' = [scan EXCEPT !.pc = "generated",
                                       !.said = @ \cup exists \cup {"created"}]
    /\ UNCHANGED <<project, pyenv, reqs>>
    /\ UNCHANGED <<qvars, cvars, ovars, svars>>

RNext == GenerateRequirements \/ FindImports \/ Requirements \/ Generate

vars == <<qcmd, qrun, cobj, child, cinv, cruns, args, verdict, env, CURRENT_DIR, pc, op, call,
          msg, issued, results, fbouts, exc, status, printed, prompts, exitcode, asked,
          files, sin, srun, sk, after1, sstat, project, pyenv, scan, reqs,
          reqfile>>

-----------------------------------------------------------------------------
(* The specifications: one per part of the program.  The variables of the  *)
(* other parts stay at their idle values.                                  *)

QIdleAll == qcmd = <<>> /\ qrun = QIdle

QInitAll == QInit /\ CIdle /\ OIdle /\ SIdle /\ RIdle

CInitAll == CInit /\ QIdleAll /\ OIdle /\ SIdle /\ RIdle

OInitAll == OInit /\ QIdleAll /\ CIdle /\ SIdle /\ RIdle

SInitAll == SInit /\ QIdleAll /\ CIdle /\ OIdle /\ RIdle

RInitAll == RInit /\ QIdleAll /\ CIdle /\ OIdle /\ SIdle

SpecQuote == QInitAll /\ [][QNext]_vars

SpecCommand == CInitAll /\ [][CNext]_vars

Spec == OInitAll /\ [][ONext]_vars

SpecScaffold == SInitAll /\ [][SNext]_vars

SpecScan == RInitAll /\ [][RNext]_vars

-----------------------------------------------------------------------------
(* C1: every command string that contains a shell metacharacter is         *)
(* executed with that character as literal text: the shell interprets no   *)
(* operator and no substitution of the string, whichever runner ran it.    *)
C1_MetaIsLiteral ==
    (qrun.runner # "none" /\ HasMeta(qcmd)) => ~qrun.interpreted

(* The part of C1 that the code keeps: Command.run hands the shell one     *)
(* single-quoted word.                                                     *)
C1_CommandRunLiteral ==
    qrun.runner = "Command.run" => (~qrun.interpreted /\ ~qrun.syntaxError)

(* initgit.cmd hands the shell the stripped command string itself.         *)
C1_CmdRunsOriginal ==
    qrun.runner = "initgit.cmd" => (qrun.spawned /\ qrun.script = Strip(qcmd))


-----------------------------------------------------------------------------
(* C2: whenever the child of an invocation exits non-zero, the invocation  *)
(* raises a CommandError (it returns no value) and the error carries the   *)
(* command text, the child's exit code and the captured stderr.  "Carries" *)
(* is read on the attributes CommandError defines (command, error_code,    *)
(* message, args), which are what the orchestrator and the top level read. *)
C2_NonZeroRaises ==
    (cinv.via = "run" /\ child.kind = "exit" /\ child.rc # 0) =>
        /\ cinv.raised.type = "CommandError"
        /\ ~cinv.returned

C2_ErrorCarriesCommandAndCode ==
    (cinv.via = "run" /\ child.kind = "exit" /\ child.rc # 0) =>
        /\ cinv.raised.type = "CommandError"
        /\ cinv.raised.command = cobj.text
        /\ cinv.raised.error_code = child.rc

C2_ErrorCarriesStderr ==
    (cinv.via = "run" /\ child.kind = "exit" /\ child.rc # 0) =>
        /\ cinv.raised.type = "CommandError"
        /\ ~cinv.returned
        /\ cinv.raised.command = cobj.text
        /\ cinv.raised.error_code = child.rc
        /\ (child.stderr = "" \/ child.stderr \in TextsOf(cinv.raised))

(* The captured stderr stays on the chained CalledProcessError only.       *)
C2_StderrOnCause ==
    (cinv.via = "run" /\ child.kind = "exit" /\ child.rc # 0) =>
        /\ cinv.raised.cause.type = "CalledProcessError"
        /\ cinv.raised.cause.stderr = child.stderr

(* C3: for every invocation of Command.run, a second run of the same       *)
(* object included, the post-run delay fires exactly once, on every exit   *)
(* path.                                                                   *)
C3_DelayOncePerInvocation ==
    cinv.via # "none" => cinv.sleeps = 1

(* The parts of C3 the code keeps: never twice in one invocation, and once *)
(* in the first invocation on an object.                                   *)
C3_DelayNeverTwice ==
    cinv.sleeps <= 1

C3_FirstInvocationSleepsOnce ==
    (cinv.via # "none" /\ cruns = 1) => cinv.sleeps = 1


-----------------------------------------------------------------------------
(* Readings of the invocation log of a create run *)

IsBackup(e) == \E k \in 1..Len(backupcmds) : backupcmds[k] = e.cmd

CountCmd(name) == Cardinality({i \in 1..Len(issued) : issued[i].cmd = name})

PrimaryFailed ==
    op = "create" /\ \E i \in 1..Len(issued) : issued[i].cmd = "gh repo create" /\ ~issued[i].ok

PrimarySucceeded ==
    op = "create" /\ \E i \in 1..Len(issued) : issued[i].cmd = "gh repo create" /\ issued[i].ok

FallbackIssued == SelectSeq(issued, IsBackup)

FallbackFailed ==
    op = "create" /\ \E i \in 1..Len(FallbackIssued) : ~FallbackIssued[i].ok

FallbackSucceeded ==
    /\ op = "create"
    /\ Len(FallbackIssued) = Len(backupcmds)
    /\ \A i \in 1..Len(FallbackIssued) : FallbackIssued[i].ok

IsPrefix(p, q) == Len(p) <= Len(q) /\ \A i \in 1..Len(p) : p[i] = q[i]

Names(entries) == [i \in 1..Len(entries) |-> entries[i].cmd]

(* An error carries the error of command c when it, or an error on its     *)
(* chain of causes (raise ... from), is the error of c.                    *)
RECURSIVE Carries(_, _)
Carries(e, c) ==
    CASE e.type = "CommandError"       -> e.command = c \/ Carries(e.cause, c)
      [] e.type = "CalledProcessError" -> e.cmd = c
      [] OTHER                         -> FALSE

-----------------------------------------------------------------------------
(* C4: in create_repo, whenever the primary command fails with a           *)
(* CommandError, whatever its exit code, the fallback sequence is          *)
(* attempted.                                                              *)
C4_FallbackOnAnyFailure ==
    PrimaryFailed => (pc = "fallback" \/ Len(FallbackIssued) > 0)

(* What the code does: the fallback follows an error code of 1, and no     *)
(* other.                                                                  *)
C4_FallbackOnlyOnCodeOne ==
    PrimaryFailed =>
        ((pc = "fallback" \/ Len(FallbackIssued) > 0)
            <=> \E i \in 1..Len(issued) :
                    issued[i].cmd = "gh repo create" /\ issued[i].code = 1)

(* C5: in one create_repo the fallback sequence starts at most once: the   *)
(* primary command and each fallback command are issued at most once, a    *)
(* failed fallback command is the last command of the run, and after a     *)
(* successful primary command no fallback command is issued.               *)
C5_FallbackAtMostOnce ==
    op = "create" =>
        /\ CountCmd("gh repo create") <= 1
        /\ \A k \in 1..Len(backupcmds) : CountCmd(backupcmds[k]) <= 1
        /\ PrimarySucceeded => FallbackIssued = <<>>
        /\ \A i \in 1..Len(issued) :
              (IsBackup(issued[i]) /\ ~issued[i].ok) =>
                  (i = Len(issued) /\ status = "raised")

C5_Witness ==
    /\ op = "create"
    /\ status = "raised"
    /\ Len(FallbackIssued) = 2
    /\ FallbackIssued[1].ok
    /\ ~FallbackIssued[2].ok

(* C6 as stated: the fallback commands are issued in the order add remote, *)
(* rename branch, push, a later one only after the earlier one succeeded.  *)
C6_OrderAddRenamePush ==
    op = "create" =>
        /\ IsPrefix(Names(FallbackIssued),
                    <<"git remote add origin", "git branch -m master",
                      "git push -u origin master">>)
        /\ \A i \in 1..Len(FallbackIssued) : i < Len(FallbackIssued) => FallbackIssued[i].ok

(* C6 as amended: the order is rename branch, add remote, push, a later    *)
(* command only after the earlier one succeeded.                           *)
C6_OrderRenameAddPush ==
    op = "create" =>
        /\ IsPrefix(Names(FallbackIssued),
                    <<"git branch -m master", "git remote add origin",
                      "git push -u origin master">>)
        /\ \A i \in 1..Len(FallbackIssued) : i < Len(FallbackIssued) => FallbackIssued[i].ok

C6_Witness ==
    /\ FallbackSucceeded
    /\ PrimaryFailed
    /\ pc = "done"

(* C7: when the primary command fails and a fallback command fails too,    *)
(* the error create_repo raises carries the primary error and the fallback *)
(* error.                                                                  *)
C7_BothErrorsSurfaced ==
    (PrimaryFailed /\ FallbackFailed /\ status = "raised") =>
        /\ exc.type = "CommandError"
        /\ Carries(exc, "gh repo create")
        /\ \E i \in 1..Len(FallbackIssued) :
              ~FallbackIssued[i].ok /\ Carries(exc, FallbackIssued[i].cmd)

(* The error raised carries the fallback error. *)
C7_FallbackErrorSurfaced ==
    (PrimaryFailed /\ FallbackFailed /\ status = "raised") =>
        /\ exc.type = "CommandError"
        /\ \E i \in 1..Len(FallbackIssued) :
              /\ ~FallbackIssued[i].ok
              /\ exc.command = FallbackIssued[i].cmd
              /\ exc.error_code = FallbackIssued[i].code

(* C8: when the primary command succeeded, or failed and the three         *)
(* fallback commands succeeded, create_repo reports the repository as      *)
(* created and returns normally; it reports failure only when a command it *)
(* issued failed.                                                          *)
C8_ReportMatchesOutcome ==
    (op = "create" /\ pc = "done") =>
        /\ (PrimarySucceeded \/ (PrimaryFailed /\ FallbackSucceeded)) =>
              /\ status = "returned"
              /\ "Repository created and added as origin" \in printed
        /\ "Failed to create local and remote repository" \in printed =>
              \E i \in 1..Len(issued) : ~issued[i].ok

(* create_repo never returns normally once the primary command was issued. *)
C8_CreateNeverReturns ==
    (op = "create" /\ pc = "done" /\ CountCmd("gh repo create") > 0) => status = "raised"

(* C9: a CommandError of an invocation is answered by the fallback (the    *)
(* primary command of create_repo) or raised to the top level: the run     *)
(* ends with it, runs no later command and reports no success.             *)
C9_NoSwallowedFailure ==
    \A i \in 1..Len(issued) :
        ~issued[i].ok =>
            \/ /\ op = "create"
               /\ issued[i].cmd = "gh repo create"
               /\ (pc = "fallback" \/ Len(FallbackIssued) > 0)
            \/ /\ i = Len(issued)
               /\ status = "raised"
               /\ exc.type = "CommandError"
               /\ Carries(exc, issued[i].cmd)

(* C10: when validate_args rejects the arguments, the run aborts and no    *)
(* Runner invocation happens in it.                                        *)
C10_RejectedSpawnsNothing ==
    verdict \notin {"none", "ok"} => (status = "aborted" /\ issued = <<>>)

C10_Witness ==
    /\ status = "aborted"
    /\ verdict = "url"
    /\ args.function_selector = "create"
    /\ issued = <<>>

(* The two checks of validate_args that reject nothing: shlex.quote never  *)
(* returns an empty string.                                                *)
C10_DeadChecks ==
    verdict \notin {"commit_hash", "remote"}

-----------------------------------------------------------------------------
(* C11: when an operation ends with an unhandled error, the process exits  *)
(* with a non-zero status: the error code of the CommandError that left    *)
(* main_init (the exit code of the failed child, when its command was the  *)
(* last one issued), or 1 when the code is absent or zero or the error is  *)
(* no CommandError; the status is never 0 after an unhandled error.        *)
C11_ExitsWithErrorCode ==
    (pc = "exited" /\ status = "raised") =>
        /\ exitcode # 0
        /\ exc.type = "CommandError" =>
              /\ exitcode = IF exc.error_code \notin {NoCode, 0} THEN exc.error_code ELSE 1
              /\ (issued # <<>> /\ ~issued[Len(issued)].ok
                    /\ issued[Len(issued)].cmd = exc.command) =>
                     exitcode = issued[Len(issued)].code
        /\ exc.type # "CommandError" => exitcode = 1

(* A fallback command of create_repo exits with 128 and the process exits  *)
(* with 128.                                                               *)
C11_Witness ==
    /\ pc = "exited"
    /\ status = "raised"
    /\ exc.type = "CommandError"
    /\ FallbackFailed
    /\ exitcode = 128

(* The other ends of a run: 0 after a normal return, 2 after parser.error. *)
C11_OtherExits ==
    pc = "exited" =>
        /\ status = "returned" => exitcode = 0
        /\ status = "aborted" => exitcode = 2

-----------------------------------------------------------------------------
(* C12: for every working directory D of the commit operation, when D has  *)
(* no .git directory the commit fails with the "No git repository found"   *)
(* CommandError and no git commit command is issued, whether or not the    *)
(* start directory of the process has a .git directory.                    *)
C12_NoRepoNoCommit ==
    (args.function_selector \in {"4", "commit"} /\ pc \in {"done", "exited"}
        /\ verdict = "ok" /\ args.cwd \notin env.gitdirs) =>
        /\ status = "raised"
        /\ exc.type = "CommandError"
        /\ exc.message.detail = "No git repository found."
        /\ CountCmd("git commit -m") = 0

(* What the code checks is the .git directory of the start directory.      *)
C12_StartDirDecides ==
    (args.function_selector \in {"4", "commit"} /\ pc \in {"done", "exited"}
        /\ verdict = "ok") =>
        IF "START" \notin env.gitdirs
        THEN /\ status = "raised"
             /\ exc.message.detail = "No git repository found."
             /\ CountCmd("git commit -m") = 0
        ELSE CountCmd("git commit -m") = 1

-----------------------------------------------------------------------------
(* The message a quoted text stands for: the layers of shlex.quote taken   *)
(* off, one shlex.split a layer.                                           *)
RECURSIVE Plain(_)
Plain(x) ==
    LET w == Split(x)
    IN IF w.ok /\ Len(w.toks) = 1 /\ w.toks[1] # x THEN Plain(w.toks[1]) ELSE x

(* A step that issues git commit -m: the last entry of the log is new.     *)
IssuesCommit ==
    /\ Len(issued') = Len(issued) + 1
    /\ issued'[Len(issued')].cmd = "git commit -m"

(* C13: for every commit message M, when COMMIT_EDITMSG of the repository  *)
(* holds M already, commit asks for another message and issues no git      *)
(* commit command that carries M.  (The runs in the start directory, where *)
(* MSGFILE is the file of the repository.)                                 *)
C13_NoDuplicateMessage ==
    [][(IssuesCommit /\ args.cwd = "START" /\ env.msgfile.exists) =>
          Plain(issued'[Len(issued')].arg) # env.msgfile.text]_vars

(* What the code keeps: a message of safe characters only (one that        *)
(* shlex.quote leaves as it is) is not committed twice.                    *)
C13_SafeMessageNotDuplicated ==
    [][(IssuesCommit /\ args.cwd = "START" /\ env.msgfile.exists
          /\ Quote(env.msgfile.text) = env.msgfile.text) =>
          Plain(issued'[Len(issued')].arg) # env.msgfile.text]_vars

-----------------------------------------------------------------------------
(* C14: after a scoped invocation (with Command(...) as c, or with         *)
(* cmd(...) as c) of a command whose child exits non-zero, the exit code   *)
(* stays inspectable when the scope has closed: return_code of the object  *)
(* is the child's exit code, and the error that leaves the scope carries   *)
(* the same code.                                                          *)
C14_ScopedFailureInspectable ==
    (cinv.via \in {"with", "cmd"} /\ child.kind = "exit" /\ child.rc # 0) =>
        /\ cobj.error_code = child.rc
        /\ cinv.raised.type = "CommandError"
        /\ cinv.raised.error_code = child.rc

(* What the code keeps: the object holds the code in both scopes, and the  *)
(* error that leaves "with Command(...)" carries it.                       *)
C14_ObjectKeepsCode ==
    (cinv.via \in {"with", "cmd"} /\ child.kind = "exit" /\ child.rc # 0) =>
        cobj.error_code = child.rc

C14_WithCommandKeepsCode ==
    (cinv.via = "with" /\ child.kind = "exit" /\ child.rc # 0) =>
        /\ cinv.raised.type = "CommandError"
        /\ cinv.raised.error_code = child.rc

(* The error that leaves cmd(...) has no code and no command: they are on  *)
(* its cause.                                                              *)
C14_CmdErrorHasNoCode ==
    (cinv.via = "cmd" /\ child.kind = "exit" /\ child.rc # 0) =>
        /\ cinv.raised.error_code = NoCode
        /\ cinv.raised.command = NoneCommand
        /\ cinv.raised.cause.error_code = child.rc

-----------------------------------------------------------------------------
(* The attributes of an error that CommandError defines. *)
Own(e) ==
    [type |-> e.type, command |-> e.command, error_code |-> e.error_code,
     args |-> e.args, message |-> e.message]

(* The program was not there to run: the shell found none of that name, or *)
(* run() failed with FileNotFoundError.                                    *)
SpawnFailed ==
    \/ child.kind = "notfound"
    \/ child.kind = "exit" /\ ~child.found

(* The errors run() raises for the object when a program ran and exited    *)
(* non-zero.                                                               *)
ExitFailures(obj) ==
    {Own(RunCommand(obj, out).raised) :
        out \in {o \in Outcomes : /\ o.kind = "exit" /\ o.found /\ o.rc # 0
                                  /\ Possible(obj, o)}}

(* C15: a failure to start the program (executable not found) is reported  *)
(* as an error kind of its own that carries the name searched for: the     *)
(* raised error alone tells a missing program from one that ran and exited *)
(* non-zero.                                                               *)
C15_NotFoundIsDistinct ==
    (cinv.via = "run" /\ SpawnFailed) =>
        /\ cinv.raised.type # "none"
        /\ Own(cinv.raised) \notin ExitFailures(cobj)

(* What tells the two apart is the cause of the error (raise ... from e).  *)
C15_CauseTellsFileNotFound ==
    (cinv.via = "run" /\ child.kind = "notfound") =>
        /\ cinv.raised.type = "CommandError"
        /\ cinv.raised.error_code = ENOENT
        /\ cinv.raised.cause.type = "FileNotFoundError"
        /\ TextsOf(cinv.raised) = {""}

-----------------------------------------------------------------------------
(* C16: an invocation whose command is empty after trimming, or whose      *)
(* working directory does not exist or is no directory, fails with an      *)
(* error of the not-found kind and starts no child process.                *)
C16_InvalidInputRejected ==
    (cinv.via = "run" /\ (cobj.text = Quote(<<>>) \/ cobj.cwd # "dir")) =>
        /\ child.kind # "exit"
        /\ cinv.raised.type = "CommandError"
        /\ cinv.raised.error_code = ENOENT
        /\ cinv.raised.cause.type = "FileNotFoundError"

(* What the code keeps: a working directory that does not exist ends in    *)
(* the FileNotFoundError branch before a child is started.                 *)
C16_MissingCwdRejected ==
    (cinv.via = "run" /\ cobj.cwd = "missing") =>
        /\ child.kind = "notfound"
        /\ cinv.raised.type = "CommandError"
        /\ cinv.raised.error_code = ENOENT

(* The empty command is run: the shell is started with the text '' and     *)
(* exits with 127.                                                         *)
C16_EmptyCommandRuns ==
    (cinv.via = "run" /\ cobj.text = Quote(<<>>) /\ cobj.cwd = "dir"
        /\ child.kind = "exit") =>
        /\ child.rc = ShellNotFound
        /\ cinv.raised.error_code = ShellNotFound

-----------------------------------------------------------------------------
(* C17: every selector that argument parsing accepts (every value of       *)
(* Selector, add included) is dispatched by main_init to at least one      *)
(* Runner invocation: no run with an accepted selector returns from        *)
(* main_init without having run a command, the variable display 9          *)
(* excepted.                                                               *)
C17_EverySelectorRuns ==
    (pc \in {"done", "exited"} /\ verdict = "ok" /\ status = "returned"
        /\ args.function_selector # "9") =>
        issued # <<>>

(* What the code keeps: every selector but add (and 9) runs a command      *)
(* before main_init returns; add matches no branch of main_init.           *)
C17_AllButAddRun ==
    (pc \in {"done", "exited"} /\ verdict = "ok" /\ status = "returned"
        /\ args.function_selector \notin {"9", "add"}) =>
        issued # <<>>

C17_AddRunsNothing ==
    (verdict = "ok" /\ args.function_selector = "add") =>
        /\ issued = <<>>
        /\ op = "none"
        /\ status = "returned"

-----------------------------------------------------------------------------
(* The second run of pre_stage on the directory has ended. *)
SecondRunEnded == srun = 2 /\ sstat \in {"done", "raised"}

(* No command of the run has a substitution or an operator that the shell  *)
(* acts on.                                                                *)
ScaffoldLiteral ==
    \A k \in 1..3 : ~Sh(pre_stage_scripts(sin.name, sin.description)[k].body).interpreted

(* C18: pre_stage is idempotent: after a second run on the same directory  *)
(* with the same repository name and description, .gitignore, README.md    *)
(* and LICENSE.txt hold exactly the content they had after the first run.  *)
C18_ScaffoldIdempotent ==
    SecondRunEnded => files = after1

(* What the code keeps: when the shell acts on nothing in the name and the *)
(* description, the second run rewrites each file with the same content.   *)
C18_IdempotentWhenLiteral ==
    (SecondRunEnded /\ ScaffoldLiteral) => files = after1

(* A second run that rewrote the three files with the same content.        *)
C18_LiteralRunTwice ==
    /\ srun = 2
    /\ sstat = "done"
    /\ ScaffoldLiteral
    /\ files = after1
    /\ sin.description = <<"a", "SP">>

-----------------------------------------------------------------------------
(* The top-level names the files of the tree import. *)
Imported == {project.files[i][1] : i \in 1..Len(project.files)}

(* The top-level package of the scanned project, where it has one. *)
OwnPackage == IF project.layout \in {"root_init", "sub_init"} THEN {"pkg"} ELSE {}

(* The names of the packages in the returned list. *)
Returned == {reqs[i][1] : i \in 1..Len(reqs)}

(* C19: the list the Dependency Scanner returns (and the set find_imports  *)
(* collects) holds neither the top-level package name of the project nor a *)
(* standard-library module.                                                *)
C19_NoOwnNoStdlib ==
    /\ scan.imports \cap (OwnPackage \cup STDLIB_MODULES) = {}
    /\ scan.pc = "returned" => Returned \cap (OwnPackage \cup STDLIB_MODULES) = {}

(* A scan of a package that imports itself and the standard library has    *)
(* returned a list.                                                        *)
C19_Witness ==
    /\ scan.pc = "returned"
    /\ project.layout = "sub_init"
    /\ project.files = <<<<"pkg", "sub">>, <<"os", "path">>>>
    /\ pyenv.facts["pkg"].loaded
    /\ pyenv.facts["pkg"].spec = "site"
    /\ ~pyenv.nospec
    /\ ~scan.unread
    /\ reqs = <<>>

(* C20: for a tree whose files import exactly one third-party package P    *)
(* (all files read), generate_requirements returns exactly one entry:      *)
(* P==version when the version of P is found, the bare name P when not,    *)
(* whether or not P is loaded in the scanning process.                     *)
C20_OneThirdPartyOneEntry ==
    (scan.pc = "returned" /\ ~scan.unread
        /\ Imported \ (OwnPackage \cup STDLIB_MODULES) = {"requests"}) =>
        reqs = <<Requirement(pyenv, "requests")>>

(* What the code keeps: the entry is returned when P is in sys.modules of  *)
(* the scanning process, was found under site-packages, and every entry of *)
(* sys.modules has a __spec__.                                             *)
C20_LoadedThirdPartyOneEntry ==
    (scan.pc = "returned" /\ ~scan.unread /\ ~pyenv.nospec
        /\ Imported \ (OwnPackage \cup STDLIB_MODULES) = {"requests"}
        /\ pyenv.facts["requests"].loaded /\ pyenv.facts["requests"].spec = "site") =>
        reqs = <<Requirement(pyenv, "requests")>>

(* A package that is not loaded in the scanning process is left out.       *)
C20_NotLoadedLeftOut ==
    (scan.pc = "returned" /\ ~pyenv.facts["requests"].loaded) =>
        "requests" \notin Returned

-----------------------------------------------------------------------------
(* Every file of the tree imports a standard-library module only. *)
StdlibOnly == \A i \in 1..Len(project.files) : project.files[i][1] \in STDLIB_MODULES

(* The scan ended: generate_requirements returned, or generate did. *)
ScanEnded == scan.pc \in {"returned", "generated"}

(* C21: for a tree whose files import standard-library modules only, the   *)
(* scan raises no error, returns the empty list with the message that      *)
(* nothing was found, and generate writes no entry to requirements.txt.    *)
C21_StdlibOnlyEmptyNoError ==
    StdlibOnly =>
        /\ scan.pc # "raised"
        /\ ScanEnded => (reqs = <<>> /\ "No imports found" \in scan.said)
        /\ scan.pc = "generated" =>
              /\ "No requirements found" \in scan.said
              /\ reqfile.lines \in {<<>>, UserRequirements.lines}

(* What the code keeps: the same, for a tree whose package name is found   *)
(* (it is not a root with subdirectories none of which has __init__.py).   *)
C21_EmptyWhenNameFound ==
    (StdlibOnly /\ project.layout # "sub_noinit") =>
        /\ scan.pc # "raised"
        /\ ScanEnded => (reqs = <<>> /\ "No imports found" \in scan.said)
        /\ scan.pc = "generated" =>
              /\ "No requirements found" \in scan.said
              /\ reqfile.lines \in {<<>>, UserRequirements.lines}

(* A standard-library-only tree whose scan ended with StopIteration. *)
C21_StdlibOnlyRaised ==
    /\ StdlibOnly
    /\ scan.pc = "raised"
    /\ project.files = <<<<"os">>>>

(* C22: find_imports never raises because of a file that cannot be read:   *)
(* once it met such a file it goes on and returns a list.                  *)
C22_UnreadableNeverRaises ==
    scan.unread => scan.pc \in {"files", "returned", "generated"}

(* A scan that met an unreadable file in the root directory and returned   *)
(* the import of a file of the subdirectory.                               *)
C22_Witness ==
    /\ scan.pc = "returned"
    /\ scan.unread
    /\ project.unreadable = {1}
    /\ project.rootfiles = 1
    /\ reqs = <<<<"requests", "==", "v1">>>>

(* The package name by the rule: the directory that holds __init__.py,     *)
(* else the name of the root directory.                                    *)
ExpectedPackageName == IF project.layout = "sub_init" THEN "pkg" ELSE project.root

(* C23: the package name the scan uses is the name of a directory holding  *)
(* a package marker and otherwise the name of the root directory, and      *)
(* finding it raises nothing, whatever subdirectories the root has.        *)
C23_PackageNameOrRootName ==
    scan.pc # "start" =>
        /\ scan.pc # "raised"
        /\ scan.package_name = ExpectedPackageName

(* What the code keeps: the rule holds for every root but one that has     *)
(* subdirectories none of which holds __init__.py.                         *)
C23_NameUnlessBareSubdirs ==
    (scan.pc # "start" /\ project.layout # "sub_noinit") =>
        /\ scan.pc # "raised"
        /\ scan.package_name = ExpectedPackageName

(* For such a root no scan is made: StopIteration leaves                   *)
(* generate_requirements.                                                  *)
C23_BareSubdirsRaise ==
    (scan.pc # "start" /\ project.layout = "sub_noinit") => scan.pc = "raised"

(* C27: when requirements.txt exists, generate leaves its content as it    *)
(* was, whatever the scan found.                                           *)
C27_ExistingFileUnchanged ==
    [][reqfile.exists => reqfile' = reqfile]_vars

(* What the code keeps: the file is left alone when the scan found         *)
(* nothing.                                                                *)
C27_ExistingKeptWhenNothingFound ==
    [][(reqfile.exists /\ reqs = <<>>) => reqfile' = reqfile]_vars

(* generate replaced the entries the user had written by the scan's. *)
C27_ExistingOverwritten ==
    /\ scan.pc = "generated"
    /\ "already exists. Skipping" \in scan.said
    /\ reqfile.lines = <<<<"requests", "==", "v1">>>>

(* The files the scan would add an import of, were they read. *)
ExternalFiles ==
    {i \in 1..Len(project.files) \ project.unreadable :
        Examine(pyenv, scan.package_name, project.files[i]) = "add"}

(* C30: skipping an unreadable file affects that file only: the list       *)
(* returned holds the external import of every readable file of the tree.  *)
C30_SkipAffectsOnlyThatFile ==
    ScanEnded => \A i \in ExternalFiles : project.files[i][1] \in Returned

(* What the code keeps: the imports of the readable files that are in      *)
(* another directory than every unreadable file, or before it in the       *)
(* listing of their directory.                                             *)
C30_OtherDirectoriesAndEarlierFilesRead ==
    ScanEnded =>
        \A i \in ExternalFiles :
            (\A j \in project.unreadable :
                EndOfDir(project, j) # EndOfDir(project, i) \/ i < j)
            => project.files[i][1] \in Returned

(* A readable file listed after an unreadable one in the same directory    *)
(* whose import is missing from the list returned.                         *)
C30_LaterFileLost ==
    /\ scan.pc = "returned"
    /\ project.unreadable = {1}
    /\ project.rootfiles = 2
    /\ ExternalFiles = {2}
    /\ reqs = <<>>

-----------------------------------------------------------------------------
(* The run is a hard-reset or a revert. *)
HashRun == args.function_selector \in {"hard-reset", "revert"}

(* The commit-hash questions the user was asked. *)
HashQuestions == SelectSeq(asked, LAMBDA q : q.prompt = "commit hash")

(* --hash was not given (validate_args asked for the hash) and the user    *)
(* typed nothing at every commit-hash question.                            *)
NoHashGiven ==
    /\ HashRun
    /\ asked # <<>>
    /\ asked[1].at = "validate_args"
    /\ \A i \in 1..Len(HashQuestions) : HashQuestions[i].answer = <<>>

(* C24: a hard-reset or revert for which no commit hash is given (no       *)
(* --hash, nothing typed at the prompt) is rejected with 'No commit hash   *)
(* provided', and no git reset / git revert command is issued.             *)
C24_NoHashAborts ==
    (NoHashGiven /\ pc # "main") =>
        /\ issued = <<>>
        /\ pc \in {"done", "exited"}
        /\ \/ (status = "aborted" /\ verdict = "commit_hash")
           \/ (status = "raised" /\ exc.type = "CommandError"
                 /\ exc.command = args.function_selector)

(* What the code does: shlex.quote of the empty answer is the text '' ,    *)
(* which is not empty, so neither check rejects it and the command is      *)
(* issued with '' as the hash (unless another check of validate_args       *)
(* rejects the command line).                                              *)
C24_EmptyHashIsIssued ==
    (NoHashGiven /\ verdict = "ok" /\ pc \in {"done", "exited"}) =>
        /\ Len(issued) = 1
        /\ issued[1].cmd \in {"git reset --hard", "git revert"}
        /\ issued[1].arg = <<"SQ", "SQ">>

(* A hard reset issued with no hash given. *)
C24_EmptyHashRun ==
    /\ NoHashGiven
    /\ args.function_selector = "hard-reset"
    /\ Len(issued) = 1
    /\ issued[1].cmd = "git reset --hard"
    /\ issued[1].ok

(* The reset operation was asked for a filename and the user typed none    *)
(* (no --filename either).                                                 *)
NoFilenameGiven ==
    /\ op = "reset"
    /\ args.filename = "none"
    /\ \E i \in 1..Len(asked) : asked[i].prompt = "filename" /\ asked[i].answer = <<>>

(* C25: a file-stage reset for which no filename is given ends with        *)
(* 'No filename provided' and issues no git reset command.                 *)
C25_NoFilenameAborts ==
    NoFilenameGiven =>
        /\ issued = <<>>
        /\ pc \in {"done", "exited"}
        /\ "No filename provided" \in printed

(* What the code does: str(None) is the text None, which is not empty, and *)
(* git reset HEAD None is issued.                                          *)
C25_NoneIsReset ==
    (NoFilenameGiven /\ pc \in {"done", "exited"}) =>
        /\ Len(issued) = 1
        /\ issued[1].cmd = "git reset HEAD"
        /\ issued[1].arg = NoneText

(* A file-stage reset of the file None that git accepted. *)
C25_NoneResetRun ==
    /\ NoFilenameGiven
    /\ Len(issued) = 1
    /\ issued[1].ok
    /\ status = "returned"

(* The positions in asked of the answer x to the question of reset. *)
ExitAnswers ==
    {i \in 1..Len(asked) : asked[i].prompt = "file or commit" /\ asked[i].answer = <<"x">>}

(* C26: the answer x to the question of reset ends the operation: no git   *)
(* command is issued and no further question is asked.                     *)
C26_ExitAnswerEnds ==
    \A i \in ExitAnswers :
        /\ i = Len(asked)
        /\ issued = <<>>
        /\ pc \in {"done", "exited"}

(* What the code does: x is no option of reset, which asks again; the      *)
(* operation ends only after a git command was issued.                     *)
C26_EndsOnlyAfterCommand ==
    (op = "reset" /\ pc \in {"done", "exited"}) => issued # <<>>

(* The question was asked again after the answer x, and the answer c then  *)
(* issued the soft reset.                                                  *)
C26_AskedAgain ==
    /\ op = "reset"
    /\ Len(asked) = 2
    /\ asked[1].answer = <<"x">>
    /\ asked[2].answer = <<"c">>
    /\ Len(issued) = 1

(* --hash was given and validate_args accepted the command line. *)
HashFlagGiven ==
    /\ HashRun
    /\ verdict = "ok"
    /\ (asked = <<>> \/ asked[1].at # "validate_args")

(* C28: the hash given with --hash and accepted by validate_args is the    *)
(* hash of the issued git reset --hard / git revert command, and the user  *)
(* is not asked for a hash.                                                *)
C28_FlagHashIsUsed ==
    (HashFlagGiven /\ pc # "main") =>
        /\ HashQuestions = <<>>
        /\ \A i \in 1..Len(issued) : issued[i].arg = args.commit_hash

(* What the code does: single_init asks for the hash whether or not --hash *)
(* was given, and the command holds the answer, quoted.                    *)
C28_TypedHashIsUsed ==
    (HashRun /\ verdict = "ok" /\ pc # "main") =>
        /\ HashQuestions # <<>>
        /\ HashQuestions[Len(HashQuestions)].at = "single_init"
        /\ call.arg = Strip(Strip(Quote(HashQuestions[Len(HashQuestions)].answer)))
        /\ \A i \in 1..Len(issued) : issued[i].arg = call.arg

(* A revert given --hash that was issued with the text '' typed at the     *)
(* question of single_init.                                                *)
C28_OtherHashRun ==
    /\ HashFlagGiven
    /\ args.function_selector = "revert"
    /\ args.commit_hash = <<"a">>
    /\ Len(issued) = 1
    /\ issued[1].arg = <<"SQ", "SQ">>

(* C29: every command a run of main_init issues for the working directory  *)
(* D of the command line runs in D, the fallback commands of create_repo   *)
(* and the soft reset of uncommit / _reset_commit included.                *)
C29_CommandsRunInCwd ==
    \A i \in 1..Len(issued) : issued[i].cwd = args.cwd

(* A create for a directory D other than the start directory whose         *)
(* fallback ran its three commands in D.                                   *)
C29_Witness ==
    /\ op = "create"
    /\ args.cwd = "D"
    /\ Len(FallbackIssued) = 3
    /\ \A i \in 1..3 : FallbackIssued[i].cwd = "D"

(* An uncommit for D whose soft reset ran in D. *)
C29_UncommitInCwd ==
    /\ args.function_selector = "uncommit"
    /\ args.cwd = "D"
    /\ Len(issued) = 1
    /\ issued[1].cmd = "git reset --soft HEAD~1"
    /\ issued[1].cwd = "D"

=============================================================================
